---- MODULE Spec2Model ----
(***************************************************************************)
(* Model of demo.py: the script that builds the Shelley server and runs it *)
(* in a tmux session named after a port derived from the worktree path.    *)
(*                                                                         *)
(* A process of the model is one invocation of the script.  Invocations    *)
(* share the tmux server's session table and nothing else.  Every call of  *)
(* an external program (make, tmux) or of the HTTP client is one step, so  *)
(* invocations interleave exactly at those calls.                          *)
(*                                                                         *)
(* Environment: make and tmux can be launched (their exit status is what   *)
(* varies); a tmux session ends only through kill-session.                 *)
(***************************************************************************)
EXTENDS Integers, Sequences, FiniteSets, TLC

----------------------------------------------------------------------------
(* Bounds of the model *)

\* number of invocations of the script
NumProcs == 2
\* length of the modelled hexdigest (64 in SHA-256; only the first 8 are read)
DigestLen == 9

(* Program constants.  Times are in ticks of 50 ms. *)

\* hexdigest()[:8]
HexPrefix == 8
\* int(h, 16)
HexBase == 16
\* 3000 + ...
PortBase == 3000
\* ... % 1000
PortRange == 1000
\* health_check(port, timeout=5.0)
Timeout == 100
\* urlopen(..., timeout=1)
ReqTimeout == 20
\* time.sleep(0.15)
PollSleep == 3

Procs == 1..NumProcs

\* the hex digits the modelled digests are built from
HexSample == {0, 9, 15}

Never == -1

VARIABLES
  hexdigest,  \* hashlib.sha256(str(SHELLEY_DIR).encode()).hexdigest(), as hex digits
  argv,       \* argv[p]: sys.argv[1:] of invocation p
  net,        \* the HTTP endpoint on localhost:<port> as the prober sees it
  sessions,   \* the tmux server's session table
  pc,         \* pc[p]: where invocation p is
  port,       \* port[p]: the local `port` of main (0 before it is computed)
  out,        \* out[p]: the lines printed so far
  ops,        \* ops[p]: the make and tmux commands issued so far, with their exit status
  ran,        \* ran[p]: the handlers of the dispatch table that were entered
  status,     \* status[p]: the exit status (Never while the process lives)
  now,        \* now[p]: time.monotonic(), counted from the call of health_check
  deadline,   \* deadline[p]: the local `deadline` of health_check
  polls,      \* polls[p]: number of urlopen calls made
  responded,  \* responded[p]: some urlopen call received an HTTP response
  hres        \* hres[p]: what health_check returned ("none" before it returns)

vars == <<hexdigest, argv, net, sessions, pc, port, out, ops, ran, status,
          now, deadline, polls, responded, hres>>

procvars == <<pc, port, out, ops, status>>
hcvars == <<now, deadline, polls, responded, hres>>
envvars == <<hexdigest, argv, net>>

----------------------------------------------------------------------------
(* Pure functions *)

\* int(h, 16) % m.  Python integers are unbounded; the value of eight hex
\* digits does not fit the checker's integers, so the remainder is taken
\* digit by digit (Horner), which yields the same number.
RECURSIVE HexMod(_, _)
HexMod(h, m) ==
  IF h = <<>> THEN 0
  ELSE (HexMod(SubSeq(h, 1, Len(h) - 1), m) * HexBase + h[Len(h)]) % m

port_for_dir_mask(hd) == PortBase + HexMod(SubSeq(hd, 1, HexPrefix), 1024)

port_for_dir(hd) == PortBase + HexMod(SubSeq(hd, 1, HexPrefix), PortRange)

\* str(n) for n >= 0: the decimal digits
RECURSIVE Str(_)
Str(n) == IF n < 10 THEN <<n>> ELSE Str(n \div 10) \o <<n % 10>>

session_name(pt) == <<"shelley-demo-">> \o Str(pt)

actions == {"start", "stop", "status", "port", "logs"}

\* exit status of `tmux has-session -t name`: 0 iff the table holds the name
has_session_rc(name) == IF \E s \in sessions : s.name = name THEN 0 ELSE 1

tmux_has_session_neg(name) == has_session_rc(name) # 0

\* subprocess.run(["tmux", "has-session", "-t", name]).returncode == 0
tmux_has_session(name) == has_session_rc(name) = 0

Msg(stream, text, sess, pt) == [stream |-> stream, text |-> text, sess |-> sess, port |-> pt]
\* a command issued to make or tmux, and the exit status it returned
Op(cmd, sess, rc) == [cmd |-> cmd, sess |-> sess, rc |-> rc]


----------------------------------------------------------------------------
(* Helpers of the state machine *)

Put(f, p, v) == [f EXCEPT ![p] = v]
Push(f, p, m) == [f EXCEPT ![p] = Append(@, m)]

\* the process ends with the given exit status
Exit(p, code) ==
  /\ pc' = Put(pc, p, "done")
  /\ status' = Put(status, p, code)

\* an exception nobody catches: the interpreter prints the traceback on the
\* error stream and exits with status 1
Uncaught(p, what) ==
  /\ out' = Push(out, p, Msg("err", what, <<>>, 0))
  /\ Exit(p, 1)

----------------------------------------------------------------------------
(* Initial states *)

ArgvSample ==
  {<<>>, <<"start">>, <<"stop">>, <<"status">>, <<"port">>, <<"logs">>, <<"restart">>}

Digests == [1..DigestLen -> HexSample]

\* the digest the session specifications use: ffffffff, port 3295
SessionDigests == {[i \in 1..DigestLen |-> 15]}

\* instants (on the prober's clock) at which the endpoint starts to respond
UpTimes == {0, 40, Timeout - 1, Timeout, Never}

Kinds == {"ok", "status", "garbage"}

\* endpoints of the session specifications: one that never answers and one
\* of each kind that answers from the start; a poll takes (almost) the whole
\* request timeout
CoarseNets ==
  {[upAt |-> Never, kind |-> "ok", failLat |-> {ReqTimeout}, respLat |-> {ReqTimeout - 1}]}
  \cup {[upAt |-> 0, kind |-> k, failLat |-> {ReqTimeout}, respLat |-> {ReqTimeout - 1}] :
           k \in Kinds}

\* endpoints of the prober's specification: any latency up to the timeout
FineNets ==
  {[upAt |-> u, kind |-> k, failLat |-> 0..ReqTimeout, respLat |-> 0..(ReqTimeout - 1)] :
     u \in UpTimes, k \in Kinds}

\* a session table left by an earlier invocation (creator 0) or empty
InitTables(hd) == {{}, {[name |-> session_name(port_for_dir(hd)), by |-> 0]}}

InitProcs ==
  /\ pc = [p \in Procs |-> "main"]
  /\ port = [p \in Procs |-> 0]
  /\ out = [p \in Procs |-> <<>>]
  /\ ops = [p \in Procs |-> <<>>]
  /\ ran = [p \in Procs |-> {}]
  /\ status = [p \in Procs |-> Never]
  /\ now = [p \in Procs |-> 0]
  /\ deadline = [p \in Procs |-> 0]
  /\ polls = [p \in Procs |-> 0]
  /\ responded = [p \in Procs |-> FALSE]
  /\ hres = [p \in Procs |-> "none"]

Init ==
  /\ hexdigest \in SessionDigests
  /\ argv \in [Procs -> ArgvSample]
  /\ net \in CoarseNets
  /\ sessions \in InitTables(hexdigest)
  /\ InitProcs

----------------------------------------------------------------------------
(* main *)

\* main falling back to start for an unknown action
Main_fallback(p) ==
  /\ pc[p] = "main"
  /\ LET action == IF Len(argv[p]) > 0 THEN argv[p][1] ELSE "start"
     IN /\ port' = Put(port, p, port_for_dir(hexdigest))
        /\ pc' = Put(pc, p, IF action \notin actions THEN "start" ELSE action)
  /\ UNCHANGED <<ran, envvars, sessions, out, status, ops, hcvars>>

Main(p) ==
  /\ pc[p] = "main"
  /\ LET pt == port_for_dir(hexdigest)
         action == IF Len(argv[p]) > 0 THEN argv[p][1] ELSE "start"
     IN /\ port' = Put(port, p, pt)
        /\ IF action \notin actions
           THEN /\ out' = Push(out, p, Msg("err", "Usage", <<>>, 0))
                /\ Exit(p, 1)
           ELSE /\ pc' = Put(pc, p, action)
                /\ UNCHANGED <<out, status>>
  /\ UNCHANGED <<ran, envvars, sessions, ops, hcvars>>

CmdPort(p) ==
  /\ pc[p] = "port"
  /\ ran' = Put(ran, p, ran[p] \cup {"port"})
  /\ out' = Push(out, p, Msg("out", "port", <<>>, port[p]))
  /\ Exit(p, 0)
  /\ UNCHANGED <<envvars, sessions, port, ops, hcvars>>

----------------------------------------------------------------------------
(* cmd_start *)

\* make build without check=True: a failed build is not noticed
CmdStartBuild_nocheck(p) ==
  /\ pc[p] = "start"
  /\ ran' = Put(ran, p, ran[p] \cup {"start"})
  /\ \E rc \in {0, 2} : ops' = Push(ops, p, Op("make", <<>>, rc))
  /\ out' = [out EXCEPT ![p] = @ \o <<Msg("out", "Building", <<>>, 0),
                                      Msg("out", "Build complete", <<>>, 0)>>]
  /\ pc' = Put(pc, p, "start_has")
  /\ UNCHANGED <<envvars, sessions, port, status, hcvars>>

\* subprocess.run(["make", "build"], cwd=SHELLEY_DIR, check=True) and the
\* prints around it
CmdStartBuild(p) ==
  /\ pc[p] = "start"
  /\ ran' = Put(ran, p, ran[p] \cup {"start"})
  /\ \E rc \in {0, 2} :
       /\ ops' = Push(ops, p, Op("make", <<>>, rc))
       /\ IF rc = 0
          THEN /\ out' = [out EXCEPT ![p] = @ \o <<Msg("out", "Building", <<>>, 0),
                                                   Msg("out", "Build complete", <<>>, 0)>>]
               /\ pc' = Put(pc, p, "start_has")
               /\ UNCHANGED status
          ELSE /\ out' = [out EXCEPT ![p] = @ \o <<Msg("out", "Building", <<>>, 0),
                                                   Msg("err", "CalledProcessError", <<>>, 0)>>]
               /\ Exit(p, 1)
  /\ UNCHANGED <<envvars, sessions, port, hcvars>>

\* if tmux_has_session(sess):
CmdStartHas(p) ==
  /\ pc[p] = "start_has"
  /\ LET sess == session_name(port[p])
     IN /\ ops' = Push(ops, p, Op("has-session", sess, has_session_rc(sess)))
        /\ IF tmux_has_session(sess)
           THEN /\ out' = Push(out, p, Msg("out", "Killing existing", sess, 0))
                /\ pc' = Put(pc, p, "start_kill")
           ELSE /\ pc' = Put(pc, p, "start_new")
                /\ UNCHANGED out
  /\ UNCHANGED <<ran, envvars, sessions, port, status, hcvars>>

\* tmux kill-session -t name: the exit status is ignored; the session is
\* gone when tmux could kill it
tmux_kill_session(p, name, ok) ==
  /\ ops' = Push(ops, p, Op("kill-session", name, IF ok THEN 0 ELSE 1))
  /\ sessions' = IF ok THEN {s \in sessions : s.name # name} ELSE sessions

\* cmd_start without the kill of the existing session
CmdStartKill_skip(p) ==
  /\ pc[p] = "start_kill"
  /\ pc' = Put(pc, p, "start_new")
  /\ UNCHANGED <<ran, envvars, sessions, ops, port, out, status, hcvars>>

\* tmux_kill_session(sess); time.sleep(0.3)
CmdStartKill(p) ==
  /\ pc[p] = "start_kill"
  /\ LET sess == session_name(port[p])
     IN \E ok \in BOOLEAN : tmux_kill_session(p, sess, ok)
  /\ pc' = Put(pc, p, "start_new")
  /\ UNCHANGED <<ran, envvars, port, out, status, hcvars>>

\* tmux new-session -d -s name cmd: tmux refuses a duplicate name and may
\* fail for other reasons (ok = FALSE); TRUE iff the session was created
tmux_new_session_dup(name, ok) == ok

tmux_new_session_ok(name, ok) == ok /\ has_session_rc(name) # 0

\* subprocess.run(["tmux", "new-session", "-d", "-s", sess, cmd], check=True)
CmdStartNew(p) ==
  /\ pc[p] = "start_new"
  /\ LET sess == session_name(port[p])
     IN \E ok \in BOOLEAN :
          IF tmux_new_session_ok(sess, ok)
          THEN /\ ops' = Push(ops, p, Op("new-session", sess, 0))
               /\ sessions' = sessions \cup {[name |-> sess, by |-> p]}
               /\ out' = Push(out, p, Msg("out", "Starting", sess, port[p]))
               /\ pc' = Put(pc, p, "health_check")
               /\ UNCHANGED status
          ELSE /\ ops' = Push(ops, p, Op("new-session", sess, 1))
               /\ out' = [out EXCEPT ![p] = @ \o <<Msg("out", "Starting", sess, port[p]),
                                                   Msg("err", "CalledProcessError", <<>>, 0)>>]
               /\ Exit(p, 1)
               /\ UNCHANGED sessions
  /\ UNCHANGED <<envvars, port, ran, hcvars>>

\* deadline = time.monotonic() + timeout
HealthCheckEnter(p) ==
  /\ pc[p] = "health_check"
  /\ now' = Put(now, p, 0)
  /\ deadline' = Put(deadline, p, 0 + Timeout)
  /\ pc' = Put(pc, p, "hc_loop")
  /\ UNCHANGED <<ran, envvars, sessions, port, out, ops, status, polls, responded, hres>>

\* one evaluation of the while condition and, when it holds, one urlopen.
\* urlopen returns for a 2xx answer, raises HTTPError (a URLError) for an
\* answer with an error status, URLError/OSError when no answer arrives, and
\* http.client.BadStatusLine (neither) when the peer does not speak HTTP.
HealthCheckPoll(p) ==
  /\ pc[p] = "hc_loop"
  /\ IF now[p] < deadline[p]
     THEN LET up == net.upAt # Never /\ now[p] >= net.upAt
          IN /\ polls' = Put(polls, p, polls[p] + 1)
             /\ IF up
                THEN \E d \in net.respLat :
                       CASE net.kind = "ok" ->
                              /\ now' = Put(now, p, now[p] + d)
                              /\ responded' = Put(responded, p, TRUE)
                              /\ hres' = Put(hres, p, "True")
                              /\ pc' = Put(pc, p, "start_report")
                              /\ UNCHANGED <<out, status>>
                         [] net.kind = "status" ->
                              /\ now' = Put(now, p, now[p] + d + PollSleep)
                              /\ responded' = Put(responded, p, TRUE)
                              /\ UNCHANGED <<hres, pc, out, status>>
                         [] net.kind = "garbage" ->
                              /\ now' = Put(now, p, now[p] + d)
                              /\ hres' = Put(hres, p, "raised")
                              /\ Uncaught(p, "BadStatusLine")
                              /\ UNCHANGED responded
                ELSE \E d \in net.failLat :
                       /\ now' = Put(now, p, now[p] + d + PollSleep)
                       /\ UNCHANGED <<responded, hres, pc, out, status>>
     ELSE /\ hres' = Put(hres, p, "False")
          /\ pc' = Put(pc, p, "start_report")
          /\ UNCHANGED <<now, polls, responded, out, status>>
  /\ UNCHANGED <<ran, envvars, sessions, port, ops, deadline>>

\* cmd_start treating a failed probe as fatal
CmdStartReport_fatal(p) ==
  /\ pc[p] = "start_report"
  /\ IF hres[p] = "True"
     THEN /\ out' = [out EXCEPT ![p] = @ \o <<Msg("out", "Demo server running", <<>>, port[p]),
                                              Msg("out", "URL", <<>>, port[p])>>]
          /\ Exit(p, 0)
     ELSE /\ out' = Push(out, p, Msg("out", "Warning: not responding", session_name(port[p]), port[p]))
          /\ Exit(p, 1)
  /\ UNCHANGED <<ran, envvars, sessions, port, ops, hcvars>>

\* the prints after health_check, and the return to main
CmdStartReport(p) ==
  /\ pc[p] = "start_report"
  /\ LET sess == session_name(port[p])
         line == IF hres[p] = "True"
                 THEN Msg("out", "Demo server running", <<>>, port[p])
                 ELSE Msg("out", "Warning: not responding", sess, port[p])
     IN out' = [out EXCEPT ![p] = @ \o <<line, Msg("out", "URL", <<>>, port[p])>>]
  /\ Exit(p, 0)
  /\ UNCHANGED <<ran, envvars, sessions, port, ops, hcvars>>

----------------------------------------------------------------------------
(* cmd_stop, cmd_status, cmd_logs *)

CmdStopHas(p) ==
  /\ pc[p] = "stop"
  /\ ran' = Put(ran, p, ran[p] \cup {"stop"})
  /\ LET sess == session_name(port[p])
     IN /\ ops' = Push(ops, p, Op("has-session", sess, has_session_rc(sess)))
        /\ IF tmux_has_session(sess)
           THEN /\ pc' = Put(pc, p, "stop_kill")
                /\ UNCHANGED <<out, status>>
           ELSE /\ out' = Push(out, p, Msg("out", "Not running", sess, 0))
                /\ Exit(p, 0)
  /\ UNCHANGED <<envvars, sessions, port, hcvars>>

\* cmd_stop with a kill whose failure raises
CmdStopKill_check(p) ==
  /\ pc[p] = "stop_kill"
  /\ LET sess == session_name(port[p])
     IN \E ok \in BOOLEAN :
          /\ tmux_kill_session(p, sess, ok)
          /\ IF ok
             THEN out' = Push(out, p, Msg("out", "Stopped", sess, 0)) /\ Exit(p, 0)
             ELSE Uncaught(p, "CalledProcessError")
  /\ UNCHANGED <<ran, envvars, port, hcvars>>

CmdStopKill(p) ==
  /\ pc[p] = "stop_kill"
  /\ LET sess == session_name(port[p])
     IN /\ \E ok \in BOOLEAN : tmux_kill_session(p, sess, ok)
        /\ out' = Push(out, p, Msg("out", "Stopped", sess, 0))
  /\ Exit(p, 0)
  /\ UNCHANGED <<ran, envvars, port, hcvars>>

CmdStatus(p) ==
  /\ pc[p] = "status"
  /\ ran' = Put(ran, p, ran[p] \cup {"status"})
  /\ LET sess == session_name(port[p])
     IN /\ ops' = Push(ops, p, Op("has-session", sess, has_session_rc(sess)))
        /\ IF tmux_has_session(sess)
           THEN out' = [out EXCEPT ![p] = @ \o <<Msg("out", "Running", sess, port[p]),
                                                 Msg("out", "URL", <<>>, port[p]),
                                                 Msg("out", "Logs", sess, 0)>>]
           ELSE out' = Push(out, p, Msg("out", "Not running", <<>>, port[p]))
  /\ Exit(p, 0)
  /\ UNCHANGED <<envvars, sessions, port, hcvars>>

\* cmd_logs without the sys.exit(1)
CmdLogsHas_noexit(p) ==
  /\ pc[p] = "logs"
  /\ ran' = Put(ran, p, ran[p] \cup {"logs"})
  /\ LET sess == session_name(port[p])
     IN /\ ops' = Push(ops, p, Op("has-session", sess, has_session_rc(sess)))
        /\ IF ~tmux_has_session(sess)
           THEN out' = Push(out, p, Msg("out", "Not running", sess, 0))
           ELSE UNCHANGED out
  /\ pc' = Put(pc, p, "logs_exec")
  /\ UNCHANGED <<envvars, sessions, port, status, hcvars>>

CmdLogsHas(p) ==
  /\ pc[p] = "logs"
  /\ ran' = Put(ran, p, ran[p] \cup {"logs"})
  /\ LET sess == session_name(port[p])
     IN /\ ops' = Push(ops, p, Op("has-session", sess, has_session_rc(sess)))
        /\ IF ~tmux_has_session(sess)
           THEN /\ out' = Push(out, p, Msg("out", "Not running", sess, 0))
                /\ Exit(p, 1)
           ELSE /\ pc' = Put(pc, p, "logs_exec")
                /\ UNCHANGED <<out, status>>
  /\ UNCHANGED <<envvars, sessions, port, hcvars>>

\* os.execvp("tmux", ["tmux", "attach", "-t", sess]): the process image is
\* replaced; no statement of the script runs after it
CmdLogsExec(p) ==
  /\ pc[p] = "logs_exec"
  /\ ops' = Push(ops, p, Op("attach", session_name(port[p]), 0))
  /\ pc' = Put(pc, p, "exec")
  /\ UNCHANGED <<ran, envvars, sessions, port, out, status, hcvars>>

----------------------------------------------------------------------------
(* Specifications *)

Next ==
  \E p \in Procs :
    \/ Main(p)
    \/ CmdPort(p)
    \/ CmdStartBuild(p)
    \/ CmdStartHas(p)
    \/ CmdStartKill(p)
    \/ CmdStartNew(p)
    \/ HealthCheckEnter(p)
    \/ HealthCheckPoll(p)
    \/ CmdStartReport(p)
    \/ CmdStopHas(p)
    \/ CmdStopKill(p)
    \/ CmdStatus(p)
    \/ CmdLogsHas(p)
    \/ CmdLogsExec(p)

Spec == Init /\ [][Next]_vars

----------------------------------------------------------------------------
(* The port resolver alone: every invocation runs `port`, over all sampled
   digests *)

InitPort ==
  /\ hexdigest \in Digests
  /\ argv = [p \in Procs |-> <<"port">>]
  /\ net \in {n \in CoarseNets : n.upAt = Never}
  /\ sessions = {}
  /\ InitProcs

NextPort == \E p \in Procs : Main(p) \/ CmdPort(p)

SpecPort == InitPort /\ [][NextPort]_vars

----------------------------------------------------------------------------
(* The health prober at full time resolution: invocation 1 runs `start`
   against every sampled endpoint, the others run `port` *)

InitHealth ==
  /\ hexdigest \in SessionDigests
  /\ argv = [p \in Procs |-> IF p = 1 THEN <<"start">> ELSE <<"port">>]
  /\ net \in FineNets
  /\ sessions \in InitTables(hexdigest)
  /\ InitProcs

NextHealth ==
  \E p \in Procs :
    \/ Main(p)
    \/ CmdPort(p)
    \/ CmdStartBuild(p)
    \/ CmdStartHas(p)
    \/ CmdStartKill(p)
    \/ CmdStartNew(p)
    \/ HealthCheckEnter(p)
    \/ HealthCheckPoll(p)
    \/ CmdStartReport(p)

SpecHealth == InitHealth /\ [][NextHealth]_vars

----------------------------------------------------------------------------
(* Properties *)

\* value of a sequence of at most four hex digits
RECURSIVE HexVal(_)
HexVal(h) == IF h = <<>> THEN 0 ELSE HexVal(SubSeq(h, 1, Len(h) - 1)) * 16 + h[Len(h)]

\* the first eight hex digits read as an unsigned 32-bit integer, modulo 1000:
\* hi * 2^16 + lo with 2^16 = 65536 = 536 (mod 1000)
Unsigned32Mod1000(hd) ==
  ((HexVal(SubSeq(hd, 1, 4)) % 1000) * 536 + HexVal(SubSeq(hd, 5, 8))) % 1000

Computed(p) == pc[p] # "main"

\* C1: every invocation resolves the port 3000 + (first 8 hex digits of the
\* digest as an unsigned 32-bit integer, modulo 1000); the port lies in
\* 3000..3999, any two invocations for the same directory resolve the same
\* port, and `port` prints it.
C1_PortForDir ==
  \A p \in Procs :
    Computed(p) =>
      /\ port[p] = 3000 + Unsigned32Mod1000(hexdigest)
      /\ 3000 <= port[p] /\ port[p] <= 3999
      /\ \A q \in Procs : Computed(q) => port[q] = port[p]
      /\ pc[p] = "done" /\ ran[p] = {"port"} =>
           out[p] = <<Msg("out", "port", <<>>, port[p])>>

\* two invocations have printed the same port, the largest one
C1_Witness ==
  \E p, q \in Procs :
    /\ p # q
    /\ pc[p] = "done" /\ pc[q] = "done"
    /\ out[p] = <<Msg("out", "port", <<>>, 3999)>>
    /\ out[q] = out[p]

----------------------------------------------------------------------------
(* Predicates on the history of an invocation *)

Cmds(p) == [i \in 1..Len(ops[p]) |-> ops[p][i].cmd]

Issued(p, cmd) == \E i \in 1..Len(ops[p]) : ops[p][i].cmd = cmd

\* the command was issued and returned an exit status of the given set
Returned(p, cmd, rcs) ==
  \E i \in 1..Len(ops[p]) : ops[p][i].cmd = cmd /\ ops[p][i].rc \in rcs

Texts(p) == {out[p][i].text : i \in 1..Len(out[p])}

\* the name the session of an invocation must have: "shelley-demo-" and the
\* four decimal digits of its port
ExpectedName(pt) ==
  <<"shelley-demo-", pt \div 1000, (pt \div 100) % 10, (pt \div 10) % 10, pt % 10>>

MySession(p) == [name |-> ExpectedName(port[p]), by |-> p]

\* no other invocation has touched the multiplexer
OthersIdle(p) == \A q \in Procs \ {p} : ops[q] = <<>>

\* no other invocation has issued a kill
OthersIssuedNoKill(p) == \A q \in Procs \ {p} : ~Issued(q, "kill-session")

TmuxCmds == {"has-session", "kill-session", "new-session", "attach"}

----------------------------------------------------------------------------
\* C2: when the build of a start exits non-zero, the invocation ends at once
\* with a non-zero exit status: make is the only command it ever issued (no
\* session is queried, killed or created), no health probe runs, and the
\* failing step leaves the session table as it was.
C2_BuildFailureAborts ==
  /\ [](\A p \in Procs :
          Returned(p, "make", {2}) =>
            /\ pc[p] = "done"
            /\ status[p] # Never /\ status[p] # 0
            /\ Cmds(p) = <<"make">>
            /\ polls[p] = 0 /\ hres[p] = "none"
            /\ "Build complete" \notin Texts(p))
  /\ [][\A p \in Procs :
          (~Returned(p, "make", {2}) /\ Returned(p, "make", {2})') =>
             sessions' = sessions]_vars

\* a start whose build failed has ended, and the session that ran before it
\* is still in the table
C2_Witness ==
  \E p \in Procs :
    /\ Returned(p, "make", {2})
    /\ pc[p] = "done" /\ status[p] = 1
    /\ OthersIdle(p)
    /\ sessions = {[name |-> ExpectedName(port[p]), by |-> 0]}

----------------------------------------------------------------------------
\* C3: once start has created its session it issues no further multiplexer
\* command, whatever the probe returns; after a probe that returned false it
\* prints the warning and then the URL and exits with status 0; and as long
\* as no other invocation issues a kill the session it created stays in the
\* table.
C3_FailedProbeIsWarning ==
  \A p \in Procs :
    Returned(p, "new-session", {0}) =>
      /\ ops[p][Len(ops[p])].cmd = "new-session"
      /\ OthersIssuedNoKill(p) => MySession(p) \in sessions
      /\ (pc[p] = "done" /\ hres[p] = "False") =>
           /\ status[p] = 0
           /\ SubSeq(out[p], Len(out[p]) - 1, Len(out[p])) =
                <<Msg("out", "Warning: not responding", ExpectedName(port[p]), port[p]),
                  Msg("out", "URL", <<>>, port[p])>>
      /\ (pc[p] = "done" /\ hres[p] = "True") =>
           /\ status[p] = 0
           /\ SubSeq(out[p], Len(out[p]) - 1, Len(out[p])) =
                <<Msg("out", "Demo server running", <<>>, port[p]),
                  Msg("out", "URL", <<>>, port[p])>>

\* a start has ended with status 0 after a probe that returned false, and
\* its session is in the table
C3_Witness ==
  \E p \in Procs :
    /\ Returned(p, "new-session", {0})
    /\ hres[p] = "False" /\ polls[p] > 0
    /\ pc[p] = "done" /\ status[p] = 0
    /\ MySession(p) \in sessions

----------------------------------------------------------------------------
\* a start that created its session and ended with exit status 0
StartedOK(p) ==
  /\ Returned(p, "new-session", {0})
  /\ pc[p] = "done" /\ status[p] = 0

RunningLines(pt) ==
  <<Msg("out", "Running", ExpectedName(pt), pt),
    Msg("out", "URL", <<>>, pt),
    Msg("out", "Logs", ExpectedName(pt), 0)>>

\* C4: status issues one has-session query, exits with status 0 and leaves
\* the session table alone; when the session created by a start that ended
\* with status 0 is in the table at that query (in particular when no other
\* invocation has issued a kill), status reports Running with the session
\* name shelley-demo-<port> and the URL of the port that start used.
C4_StatusAfterStart ==
  [][\A q \in Procs :
       (pc[q] = "status" /\ pc'[q] = "done") =>
         /\ status'[q] = 0
         /\ sessions' = sessions
         /\ Cmds(q)' = <<"has-session">>
         /\ \A p \in Procs :
              (StartedOK(p) /\ (MySession(p) \in sessions \/ OthersIssuedNoKill(p))) =>
                out'[q] = RunningLines(port[p])]_vars

\* a start that found no session has created one and ended; the status that
\* followed reported it running on the same port
C4_Witness ==
  \E p, q \in Procs :
    /\ StartedOK(p) /\ Returned(p, "has-session", {1})
    /\ MySession(p) \in sessions
    /\ ran[q] = {"status"} /\ pc[q] = "done" /\ status[q] = 0
    /\ out[q] = RunningLines(port[p])

----------------------------------------------------------------------------
\* C5: a logs invocation whose query finds no session prints the not-running
\* line, exits with status 1 and never issues the attach; one whose query
\* finds the session issues the attach as its last command, prints nothing
\* and has no exit status of its own: after the attach nothing of it changes.
C5_Logs ==
  \A p \in Procs :
    /\ Issued(p, "attach") => ran[p] = {"logs"} /\ pc[p] = "exec"
    /\ "logs" \in ran[p] =>
         /\ ran[p] = {"logs"}
         /\ Returned(p, "has-session", {1}) =>
              /\ pc[p] = "done" /\ status[p] = 1
              /\ Cmds(p) = <<"has-session">>
              /\ out[p] = <<Msg("out", "Not running", ExpectedName(port[p]), 0)>>
         /\ Returned(p, "has-session", {0}) =>
              /\ out[p] = <<>> /\ status[p] = Never
              /\ \/ pc[p] = "logs_exec" /\ Cmds(p) = <<"has-session">>
                 \/ /\ pc[p] = "exec"
                    /\ ops[p] = <<Op("has-session", ExpectedName(port[p]), 0),
                                  Op("attach", ExpectedName(port[p]), 0)>>

\* logs has ended with status 1 on a table without the session
C5_Witness ==
  \E p \in Procs :
    /\ ran[p] = {"logs"} /\ pc[p] = "done" /\ status[p] = 1
    /\ out[p] = <<Msg("out", "Not running", ExpectedName(port[p]), 0)>>
    /\ sessions = {}

\* logs has handed the process over to the attach
C5_WitnessAttached ==
  \E p \in Procs :
    /\ ran[p] = {"logs"} /\ pc[p] = "exec" /\ Issued(p, "attach")
    /\ \E s \in sessions : s.name = ExpectedName(port[p])

----------------------------------------------------------------------------
\* C6: stop never ends with a non-zero status.  When its query finds the
\* session it issues exactly one kill, for shelley-demo-<port>, and reports
\* stopped whatever the kill returned; when the query finds no session it
\* issues no kill, prints the not-running line and leaves the table as it was.
C6_StopNeverFails ==
  /\ [](\A p \in Procs :
          "stop" \in ran[p] =>
            /\ ran[p] = {"stop"}
            /\ status[p] \in {Never, 0}
            /\ pc[p] = "stop_kill" => Cmds(p) = <<"has-session">> /\ Returned(p, "has-session", {0})
            /\ pc[p] = "done" =>
                 /\ status[p] = 0
                 /\ \/ /\ Returned(p, "has-session", {0})
                       /\ Cmds(p) = <<"has-session", "kill-session">>
                       /\ ops[p][2].sess = ExpectedName(port[p])
                       /\ out[p] = <<Msg("out", "Stopped", ExpectedName(port[p]), 0)>>
                    \/ /\ Returned(p, "has-session", {1})
                       /\ Cmds(p) = <<"has-session">>
                       /\ out[p] = <<Msg("out", "Not running", ExpectedName(port[p]), 0)>>)
  /\ [][\A p \in Procs :
          (pc[p] = "stop" /\ pc'[p] = "done") => sessions' = sessions]_vars

\* one stop has killed the session and reported stopped, the next found no
\* session and reported not running; both ended with status 0
C6_Witness ==
  \E p, q \in Procs :
    /\ ran[p] = {"stop"} /\ pc[p] = "done" /\ status[p] = 0
    /\ Returned(p, "kill-session", {0})
    /\ out[p] = <<Msg("out", "Stopped", ExpectedName(port[p]), 0)>>
    /\ ran[q] = {"stop"} /\ pc[q] = "done" /\ status[q] = 0
    /\ Cmds(q) = <<"has-session">>
    /\ out[q] = <<Msg("out", "Not running", ExpectedName(port[q]), 0)>>

\* a stop whose kill failed has reported stopped and ended with status 0,
\* the session still in the table
C6_WitnessKillFailed ==
  \E p \in Procs :
    /\ ran[p] = {"stop"} /\ pc[p] = "done" /\ status[p] = 0
    /\ Returned(p, "kill-session", {1})
    /\ out[p] = <<Msg("out", "Stopped", ExpectedName(port[p]), 0)>>
    /\ \E s \in sessions : s.name = ExpectedName(port[p])

----------------------------------------------------------------------------
\* the first command-line argument, "start" when there is none
Chosen(p) == IF argv[p] = <<>> THEN "start" ELSE Head(argv[p])

\* the positions of an invocation inside each handler
HandlerLabels(h) ==
  CASE h = "start" -> {"start", "start_has", "start_kill", "start_new",
                       "health_check", "hc_loop", "start_report"}
    [] h = "stop" -> {"stop", "stop_kill"}
    [] h = "status" -> {"status"}
    [] h = "port" -> {"port"}
    [] h = "logs" -> {"logs", "logs_exec"}

\* C8: after the dispatch an invocation is inside the handler named by its
\* first argument (start when there is none), never enters another handler,
\* and has entered exactly that one when it ends; for any other argument it
\* has ended with status 1 with the usage line on the error stream as its
\* only output, having issued no make or tmux command and no HTTP request.
C8_Dispatch ==
  \A p \in Procs :
    IF pc[p] = "main"
    THEN ran[p] = {} /\ ops[p] = <<>> /\ out[p] = <<>> /\ polls[p] = 0
    ELSE IF Chosen(p) \in {"start", "stop", "status", "port", "logs"}
         THEN /\ ran[p] \subseteq {Chosen(p)}
              /\ pc[p] \in {"done", "exec"} => ran[p] = {Chosen(p)}
              /\ pc[p] \notin {"done", "exec"} => pc[p] \in HandlerLabels(Chosen(p))
         ELSE /\ pc[p] = "done" /\ status[p] = 1
              /\ out[p] = <<Msg("err", "Usage", <<>>, 0)>>
              /\ ran[p] = {} /\ ops[p] = <<>> /\ polls[p] = 0

\* an invocation without argument has run start to its end, and one with an
\* unknown argument has ended with the usage line and status 1
C8_Witness ==
  \E p, q \in Procs :
    /\ argv[p] = <<>> /\ ran[p] = {"start"} /\ pc[p] = "done" /\ status[p] = 0
    /\ argv[q] = <<"restart">> /\ pc[q] = "done" /\ status[q] = 1
    /\ out[q] = <<Msg("err", "Usage", <<>>, 0)>>

----------------------------------------------------------------------------
IsPrefix(a, b) == Len(a) <= Len(b) /\ a = SubSeq(b, 1, Len(a))

\* C9: start issues its commands in the order make, has-session, then
\* kill-session exactly when the query found the session, then one
\* new-session, with no second query; nothing follows a build that failed;
\* and when the new-session fails start ends with status 1, has made no
\* probe and has printed neither the success line, the warning nor the URL.
C9_KillThenCreateOnce ==
  \A p \in Procs :
    "start" \in ran[p] =>
      /\ \/ IsPrefix(Cmds(p), <<"make", "has-session", "kill-session", "new-session">>)
         \/ IsPrefix(Cmds(p), <<"make", "has-session", "new-session">>)
      /\ Len(ops[p]) >= 2 => ops[p][1].rc = 0
      /\ Len(ops[p]) >= 3 =>
           (ops[p][2].rc = 0 <=> ops[p][3].cmd = "kill-session")
      /\ Returned(p, "new-session", {1}) =>
           /\ pc[p] = "done" /\ status[p] = 1
           /\ polls[p] = 0 /\ hres[p] = "none"
           /\ Texts(p) \cap {"Demo server running", "Warning: not responding", "URL"} = {}

\* the kill of the existing session failed, the session is still there, the
\* new-session failed and start ended with status 1
C9_Witness ==
  \E p \in Procs :
    /\ Returned(p, "has-session", {0})
    /\ Returned(p, "kill-session", {1})
    /\ Returned(p, "new-session", {1})
    /\ pc[p] = "done" /\ status[p] = 1
    /\ OthersIdle(p)
    /\ sessions = {[name |-> ExpectedName(port[p]), by |-> 0]}

----------------------------------------------------------------------------
C10_NoLostRace ==
  [][\A p, q \in Procs :
       ~ /\ p # q
         /\ pc[q] = "start_new" /\ Returned(q, "has-session", {1})
         /\ MySession(p) \in sessions
         /\ pc'[q] = "done"]_vars

----------------------------------------------------------------------------
\* C7 as claimed: health_check returns true as soon as one poll begun before
\* the deadline receives an HTTP response of any status.  Refuted: a
\* response with an error status makes urlopen raise HTTPError, which the
\* loop swallows like a refused connection.
C7_AnyResponseReturnsTrue ==
  \A p \in Procs : responded[p] => hres[p] = "True"

\* C7 as claimed: health_check never raises.  Refuted: a peer that does not
\* speak HTTP makes urlopen raise BadStatusLine, which is not caught.
C7_NeverRaises ==
  \A p \in Procs : hres[p] # "raised"

\* what the loop does guarantee: true only after a response that urlopen
\* returned, false only at or after the deadline
C7_ResultSound ==
  \A p \in Procs :
    /\ hres[p] = "True" => responded[p] /\ net.kind = "ok"
    /\ hres[p] = "False" => now[p] >= deadline[p] /\ now[p] < deadline[p] + ReqTimeout + PollSleep

====
